---- MODULE Spec2Model ----
(***************************************************************************)
(* A model of server.py: the contact-form backend of a portfolio site.     *)
(*                                                                         *)
(*   GET  /api/         root                                               *)
(*   POST /api/contact  submit_contact_form                                *)
(*   GET  /api/contact  get_contact_submissions                            *)
(*                                                                         *)
(* The state is the "contacts" collection of the database (a sequence in   *)
(* insertion order), the identifier the driver hands out next, and what    *)
(* the last request was and how it was answered.  Spec and SpecBig run     *)
(* one handler at a time (a handler is one action); SpecConc interleaves   *)
(* the handlers of concurrent requests at their await points.              *)
(***************************************************************************)
EXTENDS Integers, Sequences, FiniteSets, TLC

VARIABLES
    contacts,    \* db.contacts: the stored documents, in insertion order
    nextId,      \* the ObjectId the driver assigns to the next inserted document
    lastReq,     \* the request handled last (Spec, SpecBig)
    response,    \* the response to lastReq
    emailCalls,  \* calls of send_email_notification made while handling lastReq
    successes,   \* number of success responses returned by POST /api/contact
    tasks,       \* SpecConc: the in-flight request of each coroutine slot
    acked        \* SpecConc: ids of the documents whose success response was returned

vars == <<contacts, nextId, lastReq, response, emailCalls, successes, tasks, acked>>

----------------------------------------------------------------------------
(* Bounds of the model *)

\* documents stored in Spec and SpecConc
MaxDocs == 2
\* the server clock reads 0..MaxTime
MaxTime == 1
\* documents stored in SpecBig: beyond the listing's cap
MaxBigDocs == 1002

(* Program constants *)

\* to_list(1000)
ListLimit == 1000

----------------------------------------------------------------------------
(* Request bodies: a JSON object is a function from its keys to values.    *)
(* A JSON value that is not a string is written as a member of NonStrings. *)

Names == {"A", "B"}
Emails == {"a@x.com"}
Messages == {"hi"}
NonStrings == {"<number 42>"}
Times == 0..MaxTime
\* a timestamp a client may put in its body: none the server clock reads
ClientTime == 0 - 1

Required == {"name", "email", "message"}

Drop(b, k) == [f \in (DOMAIN b) \ {k} |-> b[f]]

ValidBodies == [name : Names, email : Emails, message : Messages]

\* the body of the spec's example
ExampleBody == [name |-> "A", email |-> "a@x.com", message |-> "hi"]

\* a required field missing
MissingBodies == {Drop(ExampleBody, k) : k \in Required} \cup {<<>>}

\* a required field that is not a string
IllTypedBodies == {[ExampleBody EXCEPT !.message = v] : v \in NonStrings}

\* extra keys beside the three of the model
ExtraKeys(b) == b @@ [timestamp |-> ClientTime, read |-> TRUE, id |-> "forged"]

ExtraBodies == {ExtraKeys(ExampleBody), ExtraKeys(Drop(ExampleBody, "message"))}

Bodies == ValidBodies \cup MissingBodies \cup IllTypedBodies \cup ExtraBodies

\* what the email API does when called: 2xx, an error status, or no answer
TransportOutcomes == {"ok", "http_error", "raises"}

\* the order the database gives documents of equal sort key: unspecified
TieOrders == {"natural", "reverse"}

----------------------------------------------------------------------------
(* Helpers *)

Max(S) == CHOOSE x \in S : \A y \in S : y <= x

Reverse(s) == [i \in 1..Len(s) |-> s[Len(s) + 1 - i]]

Take(s, n) == IF Len(s) <= n THEN s ELSE SubSeq(s, 1, n)

Digit(d) == <<"0", "1", "2", "3", "4", "5", "6", "7", "8", "9">>[d + 1]

RECURSIVE Str(_)
\* str(c["_id"]): the identifier as text
Str(n) == IF n < 10 THEN <<Digit(n)>> ELSE Append(Str(n \div 10), Digit(n % 10))

----------------------------------------------------------------------------
(* class ContactFormSubmit(BaseModel): name: str, email: str, message: str *)

\* the body passes validation: each field is there and is a string
ContactFormSubmitValid(body) ==
    \A k \in Required : k \in DOMAIN body /\ body[k] \notin NonStrings

\* the validated model: the three fields, any other key ignored
ContactFormSubmit(body) == [k \in Required |-> body[k]]

\* a document whose timestamp is a default evaluated once, at import
ContactDoc_stale_timestamp(contact_data, now, oid) ==
    [oid       |-> oid,
     name      |-> contact_data.name,
     email     |-> contact_data.email,
     message   |-> contact_data.message,
     timestamp |-> 0,
     read      |-> FALSE]

\* contact_doc of submit_contact_form, with the _id insert_one adds
ContactDoc(contact_data, now, oid) ==
    [oid       |-> oid,
     name      |-> contact_data.name,
     email     |-> contact_data.email,
     message   |-> contact_data.message,
     timestamp |-> now,
     read      |-> FALSE]

\* the success body of submit_contact_form
SuccessBody == [success |-> TRUE, message |-> "Message saved successfully"]

\* send_email_notification: what its caller sees for each thing the
\* transport does; every exception is caught and logged
send_email_notification(transport) ==
    [raised |-> FALSE, logged |-> transport # "ok"]

----------------------------------------------------------------------------
(* find().sort("timestamp", -1).to_list(1000) *)

RECURSIVE SortBuckets(_, _, _)
SortBuckets(docs, T, tie) ==
    IF T = {} THEN <<>>
    ELSE LET m == Max(T)
             bucket == SelectSeq(docs, LAMBDA c : c.timestamp = m)
         IN (IF tie = "natural" THEN bucket ELSE Reverse(bucket))
              \o SortBuckets(docs, T \ {m}, tie)

\* sort("timestamp", 1): oldest first
SortTimestampDesc_ascending(docs, tie) ==
    Reverse(SortBuckets(docs, {docs[i].timestamp : i \in DOMAIN docs}, tie))

SortTimestampDesc(docs, tie) ==
    SortBuckets(docs, {docs[i].timestamp : i \in DOMAIN docs}, tie)

\* to_list(None): no cap
FindContacts_unlimited(docs, tie) == SortTimestampDesc(docs, tie)

FindContacts(docs, tie) == Take(SortTimestampDesc(docs, tie), ListLimit)

\* ContactFormResponse(id=str(c["_id"]), ..., read=c.get("read", False))
ContactFormResponse(c) ==
    [id        |-> Str(c.oid),
     name      |-> c.name,
     email     |-> c.email,
     message   |-> c.message,
     timestamp |-> c.timestamp,
     read      |-> IF "read" \in DOMAIN c THEN c.read ELSE FALSE]

ListBody(found) == [i \in 1..Len(found) |-> ContactFormResponse(found[i])]

----------------------------------------------------------------------------
(* The state after startup_db, with an empty collection *)

NoTask == [pc |-> "idle"]
Slots == {"c1", "c2"}

Init ==
    /\ contacts = <<>>
    /\ nextId = 1
    /\ lastReq = [op |-> "none"]
    /\ response = [kind |-> "none", status |-> 0]
    /\ emailCalls = 0
    /\ successes = 0
    /\ tasks = [s \in Slots |-> NoTask]
    /\ acked = {}

----------------------------------------------------------------------------
(* The handlers, one request at a time *)

\* GET /api/
root ==
    /\ lastReq' = [op |-> "root"]
    /\ response' = [kind |-> "root", status |-> 200,
                    body |-> [message |-> "Hello World"]]
    /\ emailCalls' = 0
    /\ UNCHANGED <<contacts, nextId, successes, tasks, acked>>

\* a handler that catches the failure of insert_one and reports success
submit_contact_form_swallows(contact_data, now, dbOk) ==
    /\ emailCalls' = 0
    /\ successes' = successes + 1
    /\ response' = [kind |-> "contact_ok", status |-> 200, body |-> SuccessBody]
    /\ IF dbOk
       THEN /\ contacts' = Append(contacts, ContactDoc(contact_data, now, nextId))
            /\ nextId' = nextId + 1
       ELSE UNCHANGED <<contacts, nextId>>

\* the body of the handler of POST /api/contact: the clock reads now, and
\* insert_one succeeds or raises; the call of send_email_notification is
\* commented out, so the handler calls it no time
submit_contact_form(contact_data, now, dbOk) ==
    /\ emailCalls' = 0
    /\ IF dbOk
       THEN /\ contacts' = Append(contacts, ContactDoc(contact_data, now, nextId))
            /\ nextId' = nextId + 1
            /\ successes' = successes + 1
            /\ response' = [kind |-> "contact_ok", status |-> 200,
                            body |-> SuccessBody]
       ELSE \* nothing catches the exception: the framework answers 500
            /\ response' = [kind |-> "server_error", status |-> 500]
            /\ UNCHANGED <<contacts, nextId, successes>>

\* the framework's answer to a body that is no ContactFormSubmit
RejectBody ==
    /\ emailCalls' = 0
    /\ response' = [kind |-> "validation_error", status |-> 422]
    /\ UNCHANGED <<contacts, nextId, successes>>

PostContactRequest(body, now, dbOk, transport) ==
    [op |-> "submit", body |-> body, now |-> now, dbOk |-> dbOk,
     transport |-> transport]

\* a route that takes the body as a plain dict and reads it with .get(k, "")
PostContact_unvalidated(body, now, dbOk, transport) ==
    /\ lastReq' = PostContactRequest(body, now, dbOk, transport)
    /\ UNCHANGED <<tasks, acked>>
    /\ submit_contact_form(
           [k \in Required |-> IF k \in DOMAIN body THEN body[k] ELSE ""],
           now, dbOk)

\* a route that sends the email before it answers and lets its failure out
PostContact_email_inline(body, now, dbOk, transport) ==
    /\ lastReq' = PostContactRequest(body, now, dbOk, transport)
    /\ UNCHANGED <<tasks, acked>>
    /\ IF ContactFormSubmitValid(body) /\ dbOk /\ transport # "ok"
       THEN /\ contacts' = Append(contacts,
                                  ContactDoc(ContactFormSubmit(body), now, nextId))
            /\ nextId' = nextId + 1
            /\ emailCalls' = 1
            /\ response' = [kind |-> "server_error", status |-> 500]
            /\ UNCHANGED successes
       ELSE IF ContactFormSubmitValid(body)
       THEN submit_contact_form(ContactFormSubmit(body), now, dbOk)
       ELSE RejectBody

\* a route that stores a submission only when no stored one has its content
PostContact_upsert(body, now, dbOk, transport) ==
    /\ lastReq' = PostContactRequest(body, now, dbOk, transport)
    /\ UNCHANGED <<tasks, acked>>
    /\ IF /\ ContactFormSubmitValid(body)
          /\ dbOk
          /\ \E i \in DOMAIN contacts :
                \A k \in Required : contacts[i][k] = body[k]
       THEN /\ emailCalls' = 0
            /\ successes' = successes + 1
            /\ response' = [kind |-> "contact_ok", status |-> 200,
                            body |-> SuccessBody]
            /\ UNCHANGED <<contacts, nextId>>
       ELSE IF ContactFormSubmitValid(body)
       THEN submit_contact_form(ContactFormSubmit(body), now, dbOk)
       ELSE RejectBody

\* a route that builds the document from the whole body: {**body, ...defaults}
PostContact_trusts_client(body, now, dbOk, transport) ==
    /\ lastReq' = PostContactRequest(body, now, dbOk, transport)
    /\ UNCHANGED <<tasks, acked>>
    /\ IF ContactFormSubmitValid(body) /\ dbOk /\ "timestamp" \in DOMAIN body
       THEN /\ contacts' = Append(contacts,
                   [ContactDoc(ContactFormSubmit(body), now, nextId)
                      EXCEPT !.timestamp = body.timestamp, !.read = body.read])
            /\ nextId' = nextId + 1
            /\ emailCalls' = 0
            /\ successes' = successes + 1
            /\ response' = [kind |-> "contact_ok", status |-> 200,
                            body |-> SuccessBody]
       ELSE IF ContactFormSubmitValid(body)
       THEN submit_contact_form(ContactFormSubmit(body), now, dbOk)
       ELSE RejectBody

\* POST /api/contact: the framework parses the body as a ContactFormSubmit
\* and calls the handler with it, or answers 422 itself.  transport is what
\* the email API would do if it were called while this request is handled.
PostContact(body, now, dbOk, transport) ==
    /\ lastReq' = PostContactRequest(body, now, dbOk, transport)
    /\ UNCHANGED <<tasks, acked>>
    /\ IF ContactFormSubmitValid(body)
       THEN submit_contact_form(ContactFormSubmit(body), now, dbOk)
       ELSE RejectBody

\* a listing that also marks what it returns as read
get_contact_submissions_marks_read(dbOk, tie) ==
    /\ lastReq' = [op |-> "list", dbOk |-> dbOk]
    /\ emailCalls' = 0
    /\ response' = IF dbOk
                   THEN [kind |-> "list", status |-> 200,
                         body |-> ListBody(FindContacts(contacts, tie))]
                   ELSE [kind |-> "server_error", status |-> 500]
    /\ contacts' = IF dbOk
                   THEN [i \in DOMAIN contacts |-> [contacts[i] EXCEPT !.read = TRUE]]
                   ELSE contacts
    /\ UNCHANGED <<nextId, successes, tasks, acked>>

\* GET /api/contact, the query succeeding or raising
get_contact_submissions(dbOk, tie) ==
    /\ lastReq' = [op |-> "list", dbOk |-> dbOk]
    /\ emailCalls' = 0
    /\ response' = IF dbOk
                   THEN [kind |-> "list", status |-> 200,
                         body |-> ListBody(FindContacts(contacts, tie))]
                   ELSE [kind |-> "server_error", status |-> 500]
    /\ UNCHANGED <<contacts, nextId, successes, tasks, acked>>

\* a submission that stores a document
Inserts(body, dbOk) == ContactFormSubmitValid(body) /\ dbOk

Next ==
    \/ root
    \/ \E body \in Bodies, now \in Times, dbOk \in BOOLEAN,
          transport \in TransportOutcomes :
         /\ Inserts(body, dbOk) => Len(contacts) < MaxDocs
         /\ PostContact(body, now, dbOk, transport)
    \/ \E dbOk \in BOOLEAN, tie \in TieOrders :
         get_contact_submissions(dbOk, tie)

Spec == Init /\ [][Next]_vars

----------------------------------------------------------------------------
(* The same handlers with one body and one clock reading, so that the      *)
(* collection grows past the cap of the listing                            *)

NextBig ==
    \/ /\ Len(contacts) < MaxBigDocs
       /\ PostContact(ExampleBody, 0, TRUE, "ok")
    \/ get_contact_submissions(TRUE, "natural")

SpecBig == Init /\ [][NextBig]_vars

----------------------------------------------------------------------------
(* Concurrent requests.  Each slot is one request's coroutine; a handler   *)
(* is split where it awaits: the database applies an insert or a query     *)
(* between the handler's start and its answer, and other coroutines run in *)
(* between.  A rejected body touches nothing shared and is left out.       *)

ConcUnchanged == UNCHANGED <<lastReq, response, emailCalls>>

\* documents stored or about to be
ConcLoad == Len(contacts) + Cardinality({s \in Slots : tasks[s].pc = "inserting"})

\* POST /api/contact arrives: contact_doc is built, insert_one is awaited
ConcPostStart(s, body, now) ==
    /\ tasks[s].pc = "idle"
    /\ ContactFormSubmitValid(body)
    /\ tasks' = [tasks EXCEPT ![s] =
                   [pc |-> "inserting",
                    contact_data |-> ContactFormSubmit(body), now |-> now]]
    /\ UNCHANGED <<contacts, nextId, successes, acked>>
    /\ ConcUnchanged

\* an insert the driver reports as done although the database dropped it
ConcInsert_unacknowledged(s, dbOk) ==
    /\ tasks[s].pc = "inserting"
    /\ tasks' = [tasks EXCEPT ![s] =
                   IF dbOk THEN [pc |-> "inserted", oid |-> nextId]
                   ELSE [pc |-> "insert_failed"]]
    /\ nextId' = IF dbOk THEN nextId + 1 ELSE nextId
    /\ UNCHANGED <<contacts, successes, acked>>
    /\ ConcUnchanged

\* the database applies insert_one, or fails it
ConcInsert(s, dbOk) ==
    /\ tasks[s].pc = "inserting"
    /\ IF dbOk
       THEN /\ contacts' = Append(contacts,
                   ContactDoc(tasks[s].contact_data, tasks[s].now, nextId))
            /\ nextId' = nextId + 1
            /\ tasks' = [tasks EXCEPT ![s] = [pc |-> "inserted", oid |-> nextId]]
       ELSE /\ tasks' = [tasks EXCEPT ![s] = [pc |-> "insert_failed"]]
            /\ UNCHANGED <<contacts, nextId>>
    /\ UNCHANGED <<successes, acked>>
    /\ ConcUnchanged

\* the handler resumes after insert_one and the success response is returned
ConcPostRespond(s) ==
    /\ tasks[s].pc = "inserted"
    /\ successes' = successes + 1
    /\ acked' = acked \cup {tasks[s].oid}
    /\ tasks' = [tasks EXCEPT ![s] = NoTask]
    /\ UNCHANGED <<contacts, nextId>>
    /\ ConcUnchanged

\* insert_one raised: the framework answers 500
ConcPostFail(s) ==
    /\ tasks[s].pc = "insert_failed"
    /\ tasks' = [tasks EXCEPT ![s] = NoTask]
    /\ UNCHANGED <<contacts, nextId, successes, acked>>
    /\ ConcUnchanged

\* GET /api/contact arrives: the query is awaited; seen is what had been
\* answered with success by then
ConcGetStart(s) ==
    /\ tasks[s].pc = "idle"
    /\ tasks' = [tasks EXCEPT ![s] = [pc |-> "finding", seen |-> acked]]
    /\ UNCHANGED <<contacts, nextId, successes, acked>>
    /\ ConcUnchanged

\* the database runs the query, or fails it
ConcFind(s, dbOk, tie) ==
    /\ tasks[s].pc = "finding"
    /\ tasks' = [tasks EXCEPT ![s] =
                   IF dbOk
                   THEN [pc |-> "found", seen |-> tasks[s].seen,
                         body |-> ListBody(FindContacts(contacts, tie))]
                   ELSE [pc |-> "find_failed"]]
    /\ UNCHANGED <<contacts, nextId, successes, acked>>
    /\ ConcUnchanged

\* the listing, or the framework's 500, is returned
ConcGetRespond(s) ==
    /\ tasks[s].pc \in {"found", "find_failed"}
    /\ tasks' = [tasks EXCEPT ![s] = NoTask]
    /\ UNCHANGED <<contacts, nextId, successes, acked>>
    /\ ConcUnchanged

NextConc ==
    \E s \in Slots :
       \/ \E body \in ValidBodies, now \in Times :
             ConcLoad < MaxDocs /\ ConcPostStart(s, body, now)
       \/ \E dbOk \in BOOLEAN : ConcInsert(s, dbOk)
       \/ ConcPostRespond(s)
       \/ ConcPostFail(s)
       \/ ConcGetStart(s)
       \/ \E dbOk \in BOOLEAN, tie \in TieOrders : ConcFind(s, dbOk, tie)
       \/ ConcGetRespond(s)

SpecConc == Init /\ [][NextConc]_vars

----------------------------------------------------------------------------
(* The claims *)

\* the body has string fields name, email and message
WellFormed(body) ==
    \A k \in Required : k \in DOMAIN body /\ body[k] \notin NonStrings

\* the body lacks one of name, email and message
LacksRequired(body) == \E k \in Required : k \notin DOMAIN body

\* the document carries the three fields of the body
Carries(doc, body) == \A k \in Required : doc[k] = body[k]

LastDoc == contacts[Len(contacts)]

\* the request handled last stored a document
LastStored == lastReq.op = "submit" /\ WellFormed(lastReq.body) /\ lastReq.dbOk

\* C1: a POST /api/contact whose body has string fields name, email and
\* message and whose insert succeeds grows the collection by exactly one
\* document, which carries the submitted fields, read = false and the
\* server's clock reading as its timestamp; the response is success = true.
C1_ValidSubmissionStoresOneDocument ==
    [][(/\ lastReq'.op = "submit"
        /\ WellFormed(lastReq'.body)
        /\ lastReq'.dbOk)
       => /\ Len(contacts') = Len(contacts) + 1
          /\ SubSeq(contacts', 1, Len(contacts)) = contacts
          /\ Carries(contacts'[Len(contacts')], lastReq'.body)
          /\ contacts'[Len(contacts')].read = FALSE
          /\ contacts'[Len(contacts')].timestamp = lastReq'.now
          /\ response'.kind = "contact_ok"
          /\ response'.status = 200
          /\ response'.body.success = TRUE]_vars

C1_Witness ==
    /\ LastStored
    /\ lastReq.body = ExampleBody
    /\ lastReq.now = 1
    /\ Len(contacts) = 2
    /\ LastDoc.timestamp = 1
    /\ response.kind = "contact_ok"

\* the number of records a listing answers after N successful submissions
ListedCount(N) == IF N <= ListLimit THEN N ELSE ListLimit

\* C2: after N successful submissions GET /api/contact returns exactly N
\* records when N <= 1000 and exactly 1000 when N > 1000; with no stored
\* document it returns the empty list with status 200.
C2_ListingCount ==
    (lastReq.op = "list" /\ lastReq.dbOk)
    => /\ response.kind = "list"
       /\ response.status = 200
       /\ Len(response.body) = ListedCount(successes)
       /\ (successes = 0 => response.body = <<>>)

C2_Witness ==
    /\ lastReq.op = "list"
    /\ successes > ListLimit
    /\ Len(contacts) = successes
    /\ response.kind = "list"
    /\ Len(response.body) = ListLimit

\* C3 as stated: adjacent records of a listing have strictly decreasing
\* timestamps.
C3_StrictlyDescending ==
    response.kind = "list"
    => \A i \in 1..(Len(response.body) - 1) :
          response.body[i].timestamp > response.body[i + 1].timestamp

\* C3 as amended: adjacent records of a listing have non-increasing
\* timestamps; submissions stored with the same timestamp are adjacent.
C3_Descending ==
    response.kind = "list"
    => \A i \in 1..(Len(response.body) - 1) :
          response.body[i].timestamp >= response.body[i + 1].timestamp

C3_Witness ==
    /\ lastReq.op = "list"
    /\ response.kind = "list"
    /\ Len(response.body) = 2
    /\ contacts[1].timestamp < contacts[2].timestamp
    /\ response.body[1].timestamp > response.body[2].timestamp

\* C4: a POST /api/contact that lacks name, email or message is answered
\* with an error and leaves the collection as it was.
C4_MissingFieldRejected ==
    [][(lastReq'.op = "submit" /\ LacksRequired(lastReq'.body))
       => /\ response'.kind = "validation_error"
          /\ response'.status \in 400..499
          /\ contacts' = contacts
          /\ nextId' = nextId]_vars

C4_Witness ==
    /\ lastReq.op = "submit"
    /\ "message" \notin DOMAIN lastReq.body
    /\ "name" \in DOMAIN lastReq.body
    /\ lastReq.dbOk
    /\ response.kind = "validation_error"
    /\ Len(contacts) >= 1

\* the response to a submission, from its body and the database alone
Outcome(req) ==
    IF ~WellFormed(req.body)
    THEN [kind |-> "validation_error", status |-> 422]
    ELSE IF ~req.dbOk
    THEN [kind |-> "server_error", status |-> 500]
    ELSE [kind |-> "contact_ok", status |-> 200, body |-> SuccessBody]

\* C5: the response to a submission is the same whether the email call
\* would succeed, fail or raise, the document of a valid submission is
\* stored in each case, send_email_notification lets no exception out, and
\* the email call is made at most once per submission.
C5_EmailFailureChangesNothing ==
    /\ \A t \in TransportOutcomes : ~send_email_notification(t).raised
    /\ emailCalls <= 1
    /\ lastReq.op = "submit"
       => /\ response = Outcome(lastReq)
          /\ LastStored
             => /\ Len(contacts) >= 1
                /\ LastDoc.oid = nextId - 1
                /\ Carries(LastDoc, lastReq.body)

C5_Witness ==
    /\ LastStored
    /\ lastReq.transport = "raises"
    /\ response.kind = "contact_ok"
    /\ response.status = 200
    /\ Carries(LastDoc, lastReq.body)

\* the contents stored, and the documents of one content
Content(doc) == [k \in Required |-> doc[k]]
StoredContents == {Content(contacts[i]) : i \in DOMAIN contacts}
StoredIdsOf(content) ==
    {contacts[i].oid : i \in {j \in DOMAIN contacts : Content(contacts[j]) = content}}
StoredWith(content) == SelectSeq(contacts, LAMBDA c : Content(c) = content)
ListedIds == {response.body[i].id : i \in DOMAIN response.body}
StoredIdsAsText == {Str(contacts[i].oid) : i \in DOMAIN contacts}

\* every submission is a document of its own, with its own identifier
NoDeduplication ==
    /\ Len(contacts) = successes
    /\ \A content \in StoredContents :
          Cardinality(StoredIdsOf(content)) = Len(StoredWith(content))

\* C6 as stated: submissions of the same content are separate documents
\* with distinct identifiers, and a later listing returns every one.
C6_DuplicatesStoredAndListed ==
    /\ NoDeduplication
    /\ (lastReq.op = "list" /\ response.kind = "list")
       => StoredIdsAsText \subseteq ListedIds

\* C6 as amended: submissions of the same content are separate documents
\* with distinct identifiers, and a later listing returns every one while
\* at most 1000 documents are stored.
C6_DuplicatesStoredAndListedUnderCap ==
    /\ NoDeduplication
    /\ (lastReq.op = "list" /\ response.kind = "list" /\ Len(contacts) <= ListLimit)
       => StoredIdsAsText \subseteq ListedIds

C6_Witness ==
    /\ lastReq.op = "list"
    /\ response.kind = "list"
    /\ Len(contacts) = 2
    /\ Content(contacts[1]) = Content(contacts[2])
    /\ contacts[1].oid # contacts[2].oid
    /\ {Str(contacts[1].oid), Str(contacts[2].oid)} \subseteq ListedIds

\* C7: success = true is returned only for a request whose insert was
\* done, and a request whose insert fails gets no success response and
\* leaves no document.
C7_NoPartialFailure ==
    [][/\ response'.kind = "contact_ok"
          => /\ lastReq'.op = "submit"
             /\ lastReq'.dbOk
             /\ Len(contacts') = Len(contacts) + 1
             /\ Carries(contacts'[Len(contacts')], lastReq'.body)
       /\ (lastReq'.op = "submit" /\ ~lastReq'.dbOk)
          => /\ response'.kind \in {"server_error", "validation_error"}
             /\ response'.status >= 400
             /\ contacts' = contacts]_vars

C7_Witness ==
    /\ lastReq.op = "submit"
    /\ WellFormed(lastReq.body)
    /\ ~lastReq.dbOk
    /\ response.kind = "server_error"
    /\ Len(contacts) >= 1

\* C8: no request deletes or changes a stored document, every stored
\* document has read = false, and GET /api/ and GET /api/contact leave the
\* collection as it was.
C8_AppendOnly ==
    [][/\ Len(contacts') >= Len(contacts)
       /\ SubSeq(contacts', 1, Len(contacts)) = contacts
       /\ \A i \in DOMAIN contacts' : contacts'[i].read = FALSE
       /\ lastReq'.op \in {"root", "list"} => contacts' = contacts]_vars

C8_Witness ==
    /\ lastReq.op = "list"
    /\ lastReq.dbOk
    /\ response.kind = "list"
    /\ Len(response.body) = 2
    /\ \A i \in DOMAIN contacts : contacts[i].read = FALSE

\* C9: the stored document is decided by name, email, message and the
\* server's clock alone: whatever other keys (timestamp, read, id) the body
\* carries, its timestamp is the clock reading and its read flag is false.
C9_TimestampServerAssigned ==
    LastStored
    => LastDoc = [oid       |-> nextId - 1,
                  name      |-> lastReq.body.name,
                  email     |-> lastReq.body.email,
                  message   |-> lastReq.body.message,
                  timestamp |-> lastReq.now,
                  read      |-> FALSE]

C9_Witness ==
    /\ LastStored
    /\ "timestamp" \in DOMAIN lastReq.body
    /\ lastReq.body.timestamp # lastReq.now
    /\ lastReq.body.read = TRUE
    /\ LastDoc.timestamp = lastReq.now
    /\ LastDoc.read = FALSE

\* submissions whose insert is done and whose response is not yet returned
Unanswered == {s \in Slots : tasks[s].pc = "inserted"}

\* the listing a slot is about to return holds a record of the stored
\* document of this identifier
Lists(s, oid) ==
    \E i \in DOMAIN tasks[s].body, j \in DOMAIN contacts :
       /\ contacts[j].oid = oid
       /\ tasks[s].body[i].id = Str(oid)
       /\ Carries(tasks[s].body[i], contacts[j])

\* a listing that started after a submission's success response holds it
ListingsHoldAnswered ==
    \A s \in Slots :
       (tasks[s].pc = "found" /\ Len(contacts) <= ListLimit)
       => \A oid \in tasks[s].seen : Lists(s, oid)

\* C10 as stated: under any interleaving, when k submissions have returned
\* success the collection holds exactly k documents, and a listing that
\* starts after a submission's success response contains its record.
C10_ExactlyAnsweredStored ==
    /\ Len(contacts) = successes
    /\ ListingsHoldAnswered

\* C10 as amended: under any interleaving, when k submissions have returned
\* success the collection holds k documents and one more for each
\* submission whose insert is done and whose response is not yet returned,
\* each under its own identifier, and a listing that starts after a
\* submission's success response contains its record.
C10_NoSubmissionLostOrDuplicated ==
    /\ Len(contacts) = successes + Cardinality(Unanswered)
    /\ Cardinality({contacts[i].oid : i \in DOMAIN contacts}) = Len(contacts)
    /\ Cardinality(acked) = successes
    /\ acked \subseteq {contacts[i].oid : i \in DOMAIN contacts}
    /\ ListingsHoldAnswered

C10_Witness ==
    \E s \in Slots, t \in Slots :
       /\ tasks[s].pc = "found"
       /\ tasks[s].seen # {}
       /\ \A oid \in tasks[s].seen : Lists(s, oid)
       /\ tasks[t].pc = "inserted"
       /\ Len(contacts) = successes + 1

====
